---------------------------- MODULE Spec2Model ----------------------------
(***************************************************************************)
(* LeAclManagerFacadeService (system/gd/hci/facade/le_acl_manager_facade.cc) *)
(* as a state machine: the gRPC handler threads, the facade handler thread  *)
(* that delivers every AclManager / queue callback, the Registry            *)
(* (acl_connections_), the Request Event Log (per_connection_events_), the  *)
(* request sequence number and the shared incoming-data channel.            *)
(***************************************************************************)
EXTENDS Integers, Sequences, FiniteSets, TLC

(***************************************************************************)
(* Program constants and model bounds                                       *)
(***************************************************************************)
HandleOffset == 16            \* 0x10 in to_handle
HandleModulus == 3584         \* 0xe00 in to_handle
Word16 == 65536               \* 2^16: uint16_t, and half of a uint32_t

NumThreads == 2       \* gRPC handler threads that run concurrently
MaxCalls == 2         \* RPC calls begun in one behaviour
MaxConns == 2         \* connection objects the AclManager delivers
MaxAclData == 1       \* inbound packets relayed in one behaviour
MaxPayload == 1       \* payload values 1..MaxPayload
ExtraHandles == 1     \* handle inputs HandleOffset..HandleOffset+ExtraHandles
LoSpan == 20          \* to_handle inputs: this many values around each boundary

Threads == 1..NumThreads
ConnIds == 1..MaxConns
AttemptIds == 1..MaxCalls
Payloads == 1..MaxPayload
HandleInputs == HandleOffset..(HandleOffset + ExtraHandles)
Dispatch == 0 - 1     \* owner id of the facade handler thread in the mutex
Free == 0             \* the mutex is not held
NoChan == 0 - 1

VARIABLES
  per_connection_events_,       \* index -> sequence of events pushed (stored channels)
  events_size,                  \* per_connection_events_.size()
  current_connection_request_,  \* uint32_t request sequence number
  acl_connections_,             \* std::map handle -> connection
  acl_connections_mutex_,       \* Free, a thread, or Dispatch
  pending_acl_data_,            \* events pushed into the shared incoming-data channel
  connections,                  \* the LeAclConnection objects and their queue ends
  rpc,                          \* each gRPC handler thread: position and locals
  dispatch,                     \* the facade handler thread: position and locals
  acl_manager_,                 \* CreateLeConnection attempts the manager has not resolved
  attempts,                     \* history: what became of each CreateConnection call
  cancelled,                    \* history: channels whose streaming RPC was cancelled
  channel_kind,                 \* history: the RPC that appended each stored channel
  one_at_a_time,                \* history: requests so far were issued serially
  n_calls,                      \* RPC calls begun
  crashed,                      \* the process died (abort or fault)
  destroyed,                    \* ~LeAclManagerFacadeService has run
  arg, ret                      \* input and result of a bare to_handle evaluation

vars == <<per_connection_events_, events_size, current_connection_request_,
          acl_connections_, acl_connections_mutex_, pending_acl_data_, connections,
          rpc, dispatch, acl_manager_, attempts, cancelled, channel_kind, one_at_a_time,
          n_calls,
          crashed, destroyed, arg, ret>>

facadeVars == <<per_connection_events_, events_size, current_connection_request_,
                acl_connections_, acl_connections_mutex_, pending_acl_data_, connections,
                rpc, dispatch, acl_manager_, attempts, cancelled, channel_kind, one_at_a_time,
          n_calls,
                crashed, destroyed>>

(***************************************************************************)
(* Pure helpers                                                             *)
(***************************************************************************)

\* A uint32_t is kept as its two 16-bit halves <<hi, lo>> where its full range
\* matters (TLC's integers are 32-bit signed).

\* A plausible slip: the offset added after the reduction instead of before it.
to_handle_wide_offset_after_mod(hi, lo) ==
  ((((hi % HandleModulus) * (Word16 % HandleModulus) + lo) % HandleModulus)
     + HandleOffset) % Word16

\* static inline uint16_t to_handle(uint32_t current_request)
\*   { return (current_request + 0x10) % 0xe00; }
\* The sum wraps at 2^32 (the carry out of the high half is dropped), is reduced
\* modulo 0xe00 and narrowed to 16 bits.
to_handle_wide(hi, lo) ==
  LET sum_lo == (lo + HandleOffset) % Word16
      carry == (lo + HandleOffset) \div Word16
      sum_hi == (hi + carry) % Word16
  IN  (((sum_hi % HandleModulus) * (Word16 % HandleModulus) + sum_lo) % HandleModulus)
        % Word16

\* to_handle on a sequence number the service reaches.
to_handle(current_request) ==
  to_handle_wide(current_request \div Word16, current_request % Word16)

\* LeConnectionCompleteBuilder::Create(...) serialized by builder_to_string;
\* conn and att are history fields (which connection / call the event is about).
ConnectionComplete(status, handle, conn, att) ==
  [type |-> "connection_complete", status |-> status, handle |-> handle,
   conn |-> conn, att |-> att]

\* DisconnectBuilder::Create(handle, reason) serialized by builder_to_string.
DisconnectEvent(handle, conn) ==
  [type |-> "disconnect", status |-> "REMOTE_USER_TERMINATED_CONNECTION",
   handle |-> handle, conn |-> conn, att |-> 0]

\* A channel that is not stored explicitly is one of the channels of an earlier
\* failed attempt: it holds exactly its failure event.
ElidedChannel == <<ConnectionComplete("FAIL", 0, 0, 0)>>

ChannelAt(i) ==
  IF i \in DOMAIN per_connection_events_ THEN per_connection_events_[i] ELSE ElidedChannel

\* per_connection_events_[i]->OnIncomingEvent(e), i < size
PushEvent(log, i, e) ==
  IF i \in DOMAIN log
    THEN [log EXCEPT ![i] = Append(@, e)]
    ELSE (i :> Append(ElidedChannel, e)) @@ log

NoConnection ==
  [state |-> "none", entry |-> 0, handle |-> 0, dequeue |-> FALSE, enqueue |-> 0,
   disconnect_cb |-> FALSE, tx |-> <<>>, origin |-> 0, n_register |-> 0, n_unregister |-> 0]

IdleThread ==
  [pc |-> "idle", op |-> "none", handle |-> 0, payload |-> 0, status |-> "none",
   chan |-> NoChan, att |-> 0, future |-> "unset", after_cancel |-> FALSE]

IdleDispatch == [pc |-> "idle", thread |-> 0, conn |-> 0, packet |-> 0]

NextConn == Cardinality({c \in ConnIds : connections[c].state # "none"}) + 1

Running == ~crashed /\ ~destroyed

(***************************************************************************)
(* Initial states                                                           *)
(***************************************************************************)

\* The service right after construction (lines 45-48, 201-205).
FreshInit ==
  /\ per_connection_events_ = <<>>
  /\ events_size = 0
  /\ current_connection_request_ = 0
  /\ acl_connections_ = <<>>
  /\ connections = [c \in ConnIds |-> NoConnection]
  /\ cancelled = {}
  /\ channel_kind = <<>>

\* The service after HandleModulus serial outgoing requests: the first one
\* succeeded (handle 0x10, still connected) and the others failed, each stream
\* cancelled after its event.  The next handle to_handle(0xe00) is 0x10 again.
AgedInit ==
  /\ per_connection_events_ = (0 :> <<ConnectionComplete("SUCCESS", HandleOffset, 1, 0)>>)
  /\ events_size = HandleModulus
  /\ current_connection_request_ = HandleModulus
  /\ acl_connections_ = (HandleOffset :> 1)
  /\ connections = [c \in ConnIds |->
        IF c = 1
          THEN [NoConnection EXCEPT !.state = "up", !.entry = 0, !.handle = HandleOffset,
                                    !.dequeue = TRUE, !.disconnect_cb = TRUE,
                                    !.n_register = 1]
          ELSE NoConnection]
  /\ cancelled = {0}
  /\ channel_kind = (0 :> "CreateConnection")

Init ==
  /\ (FreshInit \/ AgedInit)
  /\ acl_connections_mutex_ = Free
  /\ pending_acl_data_ = <<>>
  /\ rpc = [t \in Threads |-> IdleThread]
  /\ dispatch = IdleDispatch
  /\ acl_manager_ = {}
  /\ attempts = [a \in AttemptIds |-> "unused"]
  /\ one_at_a_time = TRUE
  /\ n_calls = 0
  /\ crashed = FALSE
  /\ destroyed = FALSE
  /\ arg = <<0, 0>>
  /\ ret = 0 - 1


(***************************************************************************)
(* gRPC handler threads: CreateConnection and FetchIncomingConnection       *)
(***************************************************************************)

\* A handler thread that is not inside an RPC ("done" keeps the status of the
\* call it last returned).  The threads are interchangeable: a new call is
\* taken by the lowest-numbered thread that is not inside an RPC.
NotInCall(t) == rpc[t].pc \in {"idle", "done"}

Available(t) == NotInCall(t) /\ \A u \in Threads : u < t => ~NotInCall(u)

OthersQuiet(t) == \A u \in Threads \ {t} : rpc[u].pc \in {"idle", "done"}

HasComplete(i) ==
  \E k \in 1..Len(ChannelAt(i)) : ChannelAt(i)[k].type = "connection_complete"

\* History: a call is begun by t when an earlier outgoing request was admitted,
\* has had no outcome from the manager and had its RPC cancelled, with nothing
\* else in progress.
AfterCancelledRequest(t) ==
  /\ OthersQuiet(t)
  /\ dispatch.pc = "idle"
  /\ events_size = current_connection_request_ + 1
  /\ current_connection_request_ \in DOMAIN channel_kind
  /\ channel_kind[current_connection_request_] = "CreateConnection"
  /\ current_connection_request_ \in cancelled
  /\ ChannelAt(current_connection_request_) = <<>>
  /\ \E a \in acl_manager_ : attempts[a] = "admitted"

\* Lines 57-62: the address is parsed and acl_manager_->CreateLeConnection(peer)
\* is called before anything else.
CreateConnection_Call(t) ==
  /\ Running
  /\ Available(t)
  /\ n_calls < MaxCalls
  /\ LET a == n_calls + 1 IN
       /\ rpc' = [rpc EXCEPT ![t] = [IdleThread EXCEPT !.pc = "cc_check",
                                        !.op = "CreateConnection", !.att = a,
                                        !.after_cancel = AfterCancelledRequest(t)]]
       /\ acl_manager_' = acl_manager_ \cup {a}
       /\ attempts' = [attempts EXCEPT ![a] = "checking"]
  /\ n_calls' = n_calls + 1
  /\ one_at_a_time' = (/\ one_at_a_time
                       /\ OthersQuiet(t)
                       /\ dispatch.pc = "idle"
                       /\ acl_manager_ = {}
                       /\ events_size = current_connection_request_)
  /\ UNCHANGED <<per_connection_events_, events_size, current_connection_request_,
                 acl_connections_, acl_connections_mutex_, pending_acl_data_,
                 connections, dispatch, cancelled, channel_kind, crashed, destroyed, arg, ret>>

\* A plausible slip: the admission test compares with >= size + 1, never rejecting
\* while exactly one channel is outstanding.
Outstanding_off_by_one == events_size > current_connection_request_ + 1

\* Lines 63 and 86: per_connection_events_.size() > current_connection_request_
Outstanding == events_size > current_connection_request_

\* Lines 63-65.
CreateConnection_Check(t) ==
  /\ Running
  /\ rpc[t].pc = "cc_check"
  /\ IF Outstanding
       THEN /\ rpc' = [rpc EXCEPT ![t].pc = "done", ![t].status = "RESOURCE_EXHAUSTED"]
            /\ attempts' = [attempts EXCEPT ![rpc[t].att] = "rejected"]
       ELSE /\ rpc' = [rpc EXCEPT ![t].pc = "cc_emplace"]
            /\ attempts' = [attempts EXCEPT ![rpc[t].att] = "admitted"]
  /\ UNCHANGED <<per_connection_events_, events_size, current_connection_request_,
                 acl_connections_, acl_connections_mutex_, pending_acl_data_,
                 connections, dispatch, acl_manager_, cancelled, channel_kind, one_at_a_time,
                 n_calls, crashed, destroyed, arg, ret>>

\* per_connection_events_.emplace_back(std::make_unique<GrpcEventQueue>(...))
EmplaceBack(t, next_pc) ==
  /\ per_connection_events_' = (events_size :> <<>>) @@ per_connection_events_
  /\ events_size' = events_size + 1
  /\ channel_kind' = (events_size :> rpc[t].op) @@ channel_kind
  /\ rpc' = [rpc EXCEPT ![t].pc = next_pc]

\* Lines 66-67.
CreateConnection_Emplace(t) ==
  /\ Running
  /\ rpc[t].pc = "cc_emplace"
  /\ EmplaceBack(t, "cc_runloop")
  /\ UNCHANGED <<current_connection_request_, acl_connections_, acl_connections_mutex_,
                 pending_acl_data_, connections, dispatch, acl_manager_, attempts,
                 cancelled, one_at_a_time, n_calls, crashed, destroyed, arg, ret>>

\* per_connection_events_[current_connection_request_]->RunLoop(context, writer):
\* the index is read when the loop is entered.  An index past the end of the
\* vector is undefined: the process faults, or the call comes back with garbage.
EnterRunLoop(t) ==
  IF current_connection_request_ < events_size
    THEN /\ rpc' = [rpc EXCEPT ![t].pc = "streaming",
                               ![t].chan = current_connection_request_]
         /\ crashed' = crashed
    ELSE \/ /\ crashed' = TRUE
            /\ rpc' = rpc
         \/ /\ crashed' = crashed
            /\ rpc' = [rpc EXCEPT ![t].pc = "done", ![t].status = "UNDEFINED"]

\* Line 68.
CreateConnection_RunLoop(t) ==
  /\ Running
  /\ rpc[t].pc = "cc_runloop"
  /\ EnterRunLoop(t)
  /\ UNCHANGED <<per_connection_events_, events_size, current_connection_request_,
                 acl_connections_, acl_connections_mutex_, pending_acl_data_,
                 connections, dispatch, acl_manager_, attempts, cancelled,
                 channel_kind, one_at_a_time, n_calls, destroyed, arg, ret>>

\* Lines 84-88: FetchIncomingConnection starts with the admission test.
FetchIncomingConnection_Check(t) ==
  /\ Running
  /\ Available(t)
  /\ n_calls < MaxCalls
  /\ IF Outstanding
       THEN rpc' = [rpc EXCEPT ![t] = [IdleThread EXCEPT !.pc = "done",
                        !.op = "FetchIncomingConnection", !.status = "RESOURCE_EXHAUSTED"]]
       ELSE rpc' = [rpc EXCEPT ![t] = [IdleThread EXCEPT !.pc = "fi_emplace",
                        !.op = "FetchIncomingConnection"]]
  /\ n_calls' = n_calls + 1
  /\ one_at_a_time' = FALSE
  /\ UNCHANGED <<per_connection_events_, events_size, current_connection_request_,
                 acl_connections_, acl_connections_mutex_, pending_acl_data_,
                 connections, dispatch, acl_manager_, attempts, cancelled,
                 channel_kind, crashed, destroyed, arg, ret>>

\* Lines 89-90.
FetchIncomingConnection_Emplace(t) ==
  /\ Running
  /\ rpc[t].pc = "fi_emplace"
  /\ EmplaceBack(t, "fi_runloop")
  /\ UNCHANGED <<current_connection_request_, acl_connections_, acl_connections_mutex_,
                 pending_acl_data_, connections, dispatch, acl_manager_, attempts,
                 cancelled, one_at_a_time, n_calls, crashed, destroyed, arg, ret>>

\* Line 91.
FetchIncomingConnection_RunLoop(t) ==
  /\ Running
  /\ rpc[t].pc = "fi_runloop"
  /\ EnterRunLoop(t)
  /\ UNCHANGED <<per_connection_events_, events_size, current_connection_request_,
                 acl_connections_, acl_connections_mutex_, pending_acl_data_,
                 connections, dispatch, acl_manager_, attempts, cancelled,
                 channel_kind, one_at_a_time, n_calls, destroyed, arg, ret>>

\* GrpcEventQueue::RunLoop returns once the RPC context is cancelled; the
\* channel stays in per_connection_events_.
RunLoop_Cancelled(t) ==
  /\ Running
  /\ rpc[t].pc = "streaming"
  /\ rpc' = [rpc EXCEPT ![t].pc = "done", ![t].status = "OK"]
  /\ cancelled' = cancelled \cup {rpc[t].chan}
  /\ one_at_a_time' = (one_at_a_time /\ HasComplete(rpc[t].chan))
  /\ UNCHANGED <<channel_kind, per_connection_events_, events_size, current_connection_request_,
                 acl_connections_, acl_connections_mutex_, pending_acl_data_,
                 connections, dispatch, acl_manager_, attempts, n_calls,
                 crashed, destroyed, arg, ret>>

(***************************************************************************)
(* gRPC handler threads: SendAclData and Disconnect                         *)
(***************************************************************************)

\* Lines 94-97: the promise and its future are created.
SendAclData_Call(t, h, p) ==
  /\ Running
  /\ Available(t)
  /\ n_calls < MaxCalls
  /\ rpc' = [rpc EXCEPT ![t] = [IdleThread EXCEPT !.pc = "send_lock", !.op = "SendAclData",
                                   !.handle = h, !.payload = p]]
  /\ n_calls' = n_calls + 1
  /\ UNCHANGED <<per_connection_events_, events_size, current_connection_request_,
                 acl_connections_, acl_connections_mutex_, pending_acl_data_,
                 connections, dispatch, acl_manager_, attempts, cancelled,
                 channel_kind, one_at_a_time, crashed, destroyed, arg, ret>>

\* Line 99: std::unique_lock<std::mutex> lock(acl_connections_mutex_).
SendAclData_Lock(t) ==
  /\ Running
  /\ rpc[t].pc = "send_lock"
  /\ acl_connections_mutex_ = Free
  /\ acl_connections_mutex_' = t
  /\ rpc' = [rpc EXCEPT ![t].pc = "send_find"]
  /\ UNCHANGED <<per_connection_events_, events_size, current_connection_request_,
                 acl_connections_, pending_acl_data_, connections, dispatch,
                 acl_manager_, attempts, cancelled, channel_kind, one_at_a_time, n_calls,
                 crashed, destroyed, arg, ret>>

\* A plausible slip: the lock declared in the function's scope, so that it is
\* still held while the thread waits for the future.
LockScopeEnd_function_scope(t) == t

\* Line 109: the closing brace of the block that holds the unique_lock.
LockScopeEnd(t) == Free

\* A plausible slip: the error branch logs and falls through to the wait.
UnknownHandle_falls_through(t) ==
  /\ rpc' = [rpc EXCEPT ![t].pc = "send_wait"]
  /\ UNCHANGED <<connections, crashed>>

\* Lines 101-103: LOG_ERROR and return INVALID_ARGUMENT.
UnknownHandle(t) ==
  /\ rpc' = [rpc EXCEPT ![t].pc = "done", ![t].status = "INVALID_ARGUMENT"]
  /\ UNCHANGED <<connections, crashed>>

\* Lines 100-109.  RegisterEnqueue on a queue end that already has an enqueue
\* callback aborts the process (the queue asserts that none is registered).
SendAclData_Find(t) ==
  /\ Running
  /\ rpc[t].pc = "send_find"
  /\ acl_connections_mutex_ = t
  /\ IF rpc[t].handle \notin DOMAIN acl_connections_
       THEN /\ UnknownHandle(t)
            /\ acl_connections_mutex_' = Free
       ELSE LET c == acl_connections_[rpc[t].handle] IN
            IF connections[c].enqueue # 0
              THEN /\ crashed' = TRUE
                   /\ UNCHANGED <<rpc, connections, acl_connections_mutex_>>
              ELSE /\ connections' = [connections EXCEPT ![c].enqueue = t]
                   /\ rpc' = [rpc EXCEPT ![t].pc = "send_wait"]
                   /\ acl_connections_mutex_' = LockScopeEnd(t)
                   /\ crashed' = crashed
  /\ UNCHANGED <<per_connection_events_, events_size, current_connection_request_,
                 acl_connections_, pending_acl_data_, dispatch, acl_manager_,
                 attempts, cancelled, channel_kind, one_at_a_time, n_calls, destroyed, arg, ret>>

\* Lines 110-111: future.wait() returns once enqueue_packet has set the promise.
SendAclData_Wait(t) ==
  /\ Running
  /\ rpc[t].pc = "send_wait"
  /\ rpc[t].future = "ready"
  /\ rpc' = [rpc EXCEPT ![t].pc = "done", ![t].status = "OK"]
  /\ UNCHANGED <<per_connection_events_, events_size, current_connection_request_,
                 acl_connections_, acl_connections_mutex_, pending_acl_data_,
                 connections, dispatch, acl_manager_, attempts, cancelled,
                 channel_kind, one_at_a_time, n_calls, crashed, destroyed, arg, ret>>

\* Lines 71-73: the call takes the lock.
Disconnect_Lock(t, h) ==
  /\ Running
  /\ Available(t)
  /\ n_calls < MaxCalls
  /\ acl_connections_mutex_ = Free
  /\ acl_connections_mutex_' = t
  /\ rpc' = [rpc EXCEPT ![t] = [IdleThread EXCEPT !.pc = "disconnect_find",
                                   !.op = "Disconnect", !.handle = h]]
  /\ n_calls' = n_calls + 1
  /\ UNCHANGED <<per_connection_events_, events_size, current_connection_request_,
                 acl_connections_, pending_acl_data_, connections, dispatch,
                 acl_manager_, attempts, cancelled, channel_kind, one_at_a_time,
                 crashed, destroyed, arg, ret>>

\* Lines 74-82: connection->Disconnect(reason) only asks the link layer to
\* terminate; on_disconnect is delivered later by the handler thread.
Disconnect_Find(t) ==
  /\ Running
  /\ rpc[t].pc = "disconnect_find"
  /\ acl_connections_mutex_ = t
  /\ rpc' = [rpc EXCEPT ![t].pc = "done",
                        ![t].status = IF rpc[t].handle \in DOMAIN acl_connections_
                                        THEN "OK" ELSE "INVALID_ARGUMENT"]
  /\ acl_connections_mutex_' = Free
  /\ UNCHANGED <<per_connection_events_, events_size, current_connection_request_,
                 acl_connections_, pending_acl_data_, connections, dispatch,
                 acl_manager_, attempts, cancelled, channel_kind, one_at_a_time, n_calls,
                 crashed, destroyed, arg, ret>>

(***************************************************************************)
(* The facade handler thread: AclManager and queue callbacks                *)
(***************************************************************************)

\* per_connection_events_[i]->OnIncomingEvent(e) as the callbacks do it: no
\* bounds check.  Past the end of the vector the behaviour is undefined: the
\* process faults, or the write lands nowhere visible and the callback goes on.
PushUnchecked(i, e) ==
  IF i < events_size
    THEN /\ per_connection_events_' = PushEvent(per_connection_events_, i, e)
         /\ crashed' = crashed
    ELSE /\ per_connection_events_' = per_connection_events_
         /\ crashed' \in {TRUE, FALSE}

\* The request whose stream the outcome resolves is open on the current channel.
ResolvesOpenStream(a) ==
  /\ a # 0
  /\ attempts[a] = "admitted"
  /\ \E t \in Threads : /\ rpc[t].att = a
                        /\ rpc[t].pc = "streaming"
                        /\ rpc[t].chan = current_connection_request_

\* acl_connections_[h] = c, a plausible slip for emplace: the newer entry wins.
RegistryEmplace_overwrites(h, c) ==
  (h :> c) @@ acl_connections_

\* Line 163: acl_connections_.emplace(handle, shared_connection); std::map::emplace
\* inserts nothing when the key is already present.
RegistryEmplace(h, c) ==
  IF h \in DOMAIN acl_connections_ THEN acl_connections_ ELSE (h :> c) @@ acl_connections_

\* Lines 156-179, under the Registry lock; a = 0 is a connection no
\* CreateConnection call asked for (an incoming connection).
OnLeConnectSuccess_Push(a) ==
  /\ Running
  /\ dispatch.pc = "idle"
  /\ acl_connections_mutex_ = Free
  /\ NextConn <= MaxConns
  /\ LET c == NextConn
         h == to_handle(current_connection_request_) IN
       /\ acl_connections_' = RegistryEmplace(h, c)
       /\ connections' = [connections EXCEPT ![c] =
            [NoConnection EXCEPT !.state = "up", !.entry = current_connection_request_,
                                 !.handle = h, !.dequeue = TRUE, !.disconnect_cb = TRUE,
                                 !.origin = a, !.n_register = 1]]
       /\ PushUnchecked(current_connection_request_, ConnectionComplete("SUCCESS", h, c, a))
       /\ dispatch' = [IdleDispatch EXCEPT !.pc = "success_increment", !.conn = c]
  /\ acl_connections_mutex_' = Dispatch
  /\ acl_manager_' = acl_manager_ \ {a}
  /\ one_at_a_time' = (one_at_a_time /\ ResolvesOpenStream(a))
  /\ UNCHANGED <<events_size, current_connection_request_, pending_acl_data_, rpc,
                 attempts, cancelled, channel_kind, n_calls, destroyed, arg, ret>>

\* A plausible slip: the callback returns without advancing the sequence number.
Increment_skipped == current_connection_request_

\* current_connection_request_++ (a uint32_t; the sequence numbers reached here
\* stay below HandleModulus + MaxConns + MaxCalls, far from 2^32).
Increment == current_connection_request_ + 1

\* Lines 180-181: the increment, then the lock is released.
OnLeConnectSuccess_Increment ==
  /\ Running
  /\ dispatch.pc = "success_increment"
  /\ current_connection_request_' = Increment
  /\ acl_connections_mutex_' = Free
  /\ dispatch' = IdleDispatch
  /\ UNCHANGED <<per_connection_events_, events_size, acl_connections_,
                 pending_acl_data_, connections, rpc, acl_manager_, attempts,
                 cancelled, channel_kind, one_at_a_time, n_calls, crashed, destroyed, arg, ret>>

\* Lines 183-188: the failure of an attempt the manager was asked for.
OnLeConnectFail_Push(a) ==
  /\ Running
  /\ dispatch.pc = "idle"
  /\ a \in acl_manager_
  /\ PushUnchecked(current_connection_request_, ConnectionComplete("FAIL", 0, 0, a))
  /\ dispatch' = [IdleDispatch EXCEPT !.pc = "fail_increment"]
  /\ acl_manager_' = acl_manager_ \ {a}
  /\ one_at_a_time' = (one_at_a_time /\ ResolvesOpenStream(a))
  /\ UNCHANGED <<events_size, current_connection_request_, acl_connections_,
                 acl_connections_mutex_, pending_acl_data_, connections, rpc,
                 attempts, cancelled, channel_kind, n_calls, destroyed, arg, ret>>

\* Lines 189-190.
OnLeConnectFail_Increment ==
  /\ Running
  /\ dispatch.pc = "fail_increment"
  /\ current_connection_request_' = Increment
  /\ dispatch' = IdleDispatch
  /\ UNCHANGED <<per_connection_events_, events_size, acl_connections_,
                 acl_connections_mutex_, pending_acl_data_, connections, rpc,
                 acl_manager_, attempts, cancelled, channel_kind, one_at_a_time, n_calls,
                 crashed, destroyed, arg, ret>>

\* Lines 114-118: the enqueue callback of connection c, registered by thread t.
\* The queue end is found again through the Registry, the packet is built from
\* the request and the promise is set.
enqueue_packet_SetValue(c) ==
  /\ Running
  /\ dispatch.pc = "idle"
  /\ connections[c].state = "up"
  /\ connections[c].enqueue # 0
  /\ LET t == connections[c].enqueue
         target == acl_connections_[rpc[t].handle] IN
       /\ connections' = [connections EXCEPT ![target].enqueue = 0]
       /\ rpc' = [rpc EXCEPT ![t].future = "ready"]
       /\ dispatch' = [pc |-> "enqueue_return", thread |-> t, conn |-> c,
                       packet |-> rpc[t].payload]
  /\ UNCHANGED <<per_connection_events_, events_size, current_connection_request_,
                 acl_connections_, acl_connections_mutex_, pending_acl_data_,
                 acl_manager_, attempts, cancelled, channel_kind, one_at_a_time, n_calls,
                 crashed, destroyed, arg, ret>>

\* Lines 119-120: the packet is returned to the queue, which takes it.
enqueue_packet_Return ==
  /\ Running
  /\ dispatch.pc = "enqueue_return"
  /\ connections' = [connections EXCEPT ![dispatch.conn].tx = Append(@, dispatch.packet)]
  /\ dispatch' = IdleDispatch
  /\ UNCHANGED <<per_connection_events_, events_size, current_connection_request_,
                 acl_connections_, acl_connections_mutex_, pending_acl_data_, rpc,
                 acl_manager_, attempts, cancelled, channel_kind, one_at_a_time, n_calls,
                 crashed, destroyed, arg, ret>>

\* Lines 138-144: the dequeue callback of connection c, bound to the handle the
\* connection was given; p is the packet TryDequeue returns.
on_incoming_acl(c, p) ==
  /\ Running
  /\ dispatch.pc = "idle"
  /\ connections[c].dequeue
  /\ Len(pending_acl_data_) < MaxAclData
  /\ pending_acl_data_' = Append(pending_acl_data_,
                                 [handle |-> connections[c].handle, payload |-> p, conn |-> c])
  /\ UNCHANGED <<per_connection_events_, events_size, current_connection_request_,
                 acl_connections_, acl_connections_mutex_, connections, rpc, dispatch,
                 acl_manager_, attempts, cancelled, channel_kind, one_at_a_time, n_calls,
                 crashed, destroyed, arg, ret>>

\* A plausible slip: the dequeue callback left registered on disconnect.
UnregisterDequeue_skipped(conn) == conn

\* connection->GetAclQueueEnd()->UnregisterDequeue()
UnregisterDequeue(conn) ==
  [conn EXCEPT !.dequeue = FALSE, !.n_unregister = @ + 1]

\* Lines 146-154: the one-shot disconnect callback of connection c, bound to
\* the sequence number the connection was established under.
on_disconnect(c) ==
  /\ Running
  /\ dispatch.pc = "idle"
  /\ connections[c].disconnect_cb
  /\ connections' = [connections EXCEPT ![c] =
        [UnregisterDequeue(connections[c]) EXCEPT !.state = "finished",
                                                  !.disconnect_cb = FALSE]]
  /\ PushUnchecked(connections[c].entry,
                   DisconnectEvent(to_handle(connections[c].entry), c))
  /\ UNCHANGED <<events_size, current_connection_request_, acl_connections_,
                 acl_connections_mutex_, pending_acl_data_, rpc, dispatch,
                 acl_manager_, attempts, cancelled, channel_kind, one_at_a_time, n_calls,
                 destroyed, arg, ret>>

\* Lines 50-55: the destructor, run when the module stops: no RPC is in
\* progress and the handler is idle.
Destructor ==
  /\ Running
  /\ \A t \in Threads : NotInCall(t)
  /\ dispatch.pc = "idle"
  /\ acl_connections_mutex_ = Free
  /\ connections' = [c \in ConnIds |->
        IF \E h \in DOMAIN acl_connections_ : acl_connections_[h] = c
          THEN UnregisterDequeue(connections[c])
          ELSE connections[c]]
  /\ destroyed' = TRUE
  /\ UNCHANGED <<per_connection_events_, events_size, current_connection_request_,
                 acl_connections_, acl_connections_mutex_, pending_acl_data_, rpc,
                 dispatch, acl_manager_, attempts, cancelled, channel_kind, one_at_a_time,
                 n_calls, crashed, arg, ret>>

(***************************************************************************)
(* The service                                                              *)
(***************************************************************************)

Next ==
  \/ \E t \in Threads : CreateConnection_Call(t)
  \/ \E t \in Threads : CreateConnection_Check(t)
  \/ \E t \in Threads : CreateConnection_Emplace(t)
  \/ \E t \in Threads : CreateConnection_RunLoop(t)
  \/ \E t \in Threads : FetchIncomingConnection_Check(t)
  \/ \E t \in Threads : FetchIncomingConnection_Emplace(t)
  \/ \E t \in Threads : FetchIncomingConnection_RunLoop(t)
  \/ \E t \in Threads : RunLoop_Cancelled(t)
  \/ \E t \in Threads, h \in HandleInputs, p \in Payloads : SendAclData_Call(t, h, p)
  \/ \E t \in Threads : SendAclData_Lock(t)
  \/ \E t \in Threads : SendAclData_Find(t)
  \/ \E t \in Threads : SendAclData_Wait(t)
  \/ \E t \in Threads, h \in HandleInputs : Disconnect_Lock(t, h)
  \/ \E t \in Threads : Disconnect_Find(t)
  \/ \E a \in acl_manager_ \cup {0} : OnLeConnectSuccess_Push(a)
  \/ OnLeConnectSuccess_Increment
  \/ \E a \in acl_manager_ : OnLeConnectFail_Push(a)
  \/ OnLeConnectFail_Increment
  \/ \E c \in ConnIds : enqueue_packet_SetValue(c)
  \/ enqueue_packet_Return
  \/ \E c \in ConnIds, p \in Payloads : on_incoming_acl(c, p)
  \/ \E c \in ConnIds : on_disconnect(c)
  \/ Destructor

Spec == Init /\ [][Next]_vars

(***************************************************************************)
(* to_handle on its own: the input is drawn from around the boundaries of   *)
(* its domain and the function is applied to it                              *)
(***************************************************************************)

ToHandleLows ==
  (0..LoSpan)
    \cup ((HandleModulus - HandleOffset - LoSpan)..(HandleModulus + LoSpan))
    \cup ((Word16 - 1 - LoSpan)..(Word16 - 1))

ToHandleInputs == {0, 1, Word16 - 1} \X ToHandleLows

Init_to_handle ==
  /\ FreshInit
  /\ acl_connections_mutex_ = Free
  /\ pending_acl_data_ = <<>>
  /\ rpc = [t \in Threads |-> IdleThread]
  /\ dispatch = IdleDispatch
  /\ acl_manager_ = {}
  /\ attempts = [a \in AttemptIds |-> "unused"]
  /\ one_at_a_time = TRUE
  /\ n_calls = 0
  /\ crashed = FALSE
  /\ destroyed = FALSE
  /\ arg \in ToHandleInputs
  /\ ret = 0 - 1

Evaluate_to_handle ==
  /\ ret = 0 - 1
  /\ ret' = to_handle_wide(arg[1], arg[2])
  /\ UNCHANGED <<facadeVars, arg>>

Spec_to_handle == Init_to_handle /\ [][Evaluate_to_handle]_vars

(***************************************************************************)
(* Properties                                                               *)
(***************************************************************************)

Events(i) == {ChannelAt(i)[k] : k \in 1..Len(ChannelAt(i))}

AllEvents == UNION {Events(i) : i \in DOMAIN per_connection_events_}

\* C1: a CreateConnection call that is rejected with RESOURCE_EXHAUSTED never
\* leads to a handle allocation: no Registry entry and no connection-complete
\* event is ever produced on behalf of a rejected call.
C1_RejectedCallAllocatesNothing ==
  /\ \A h \in DOMAIN acl_connections_ :
       LET a == connections[acl_connections_[h]].origin IN
         a # 0 => attempts[a] # "rejected"
  /\ \A e \in AllEvents :
       (e.type = "connection_complete" /\ e.att # 0) => attempts[e.att] # "rejected"

\* C2: when an admitted outgoing request gets no outcome from the manager and
\* its RPC is cancelled, the next CreateConnection request is admitted, not
\* rejected with RESOURCE_EXHAUSTED.
C2_CancelledRequestFreesSlot ==
  \A t \in Threads :
    (rpc[t].op = "CreateConnection" /\ rpc[t].after_cancel)
      => rpc[t].status # "RESOURCE_EXHAUSTED"

\* C3: SendAclData never has returned OK while the packet that enqueue_packet
\* built for it has not yet been taken by the connection's outbound queue.
C3_ReturnedOnlyAfterAccepted ==
  \A t \in Threads :
    (rpc[t].op = "SendAclData" /\ rpc[t].pc = "done" /\ rpc[t].status = "OK")
      => ~(dispatch.pc = "enqueue_return" /\ dispatch.thread = t)

\* C4: when outgoing requests are issued one at a time, each resolved by one
\* callback and its stream cancelled only after that, the n-th request (channel
\* index n-1), if it succeeds, carries handle (n-1 + 0x10) mod 0xe00 in its
\* connection-complete event and is in the Registry under that handle.
C4_NthRequestHandle ==
  one_at_a_time =>
    \A i \in DOMAIN per_connection_events_ : \A e \in Events(i) :
      (e.type = "connection_complete" /\ e.status = "SUCCESS") =>
        /\ e.handle = (i + 16) % 3584
        /\ e.handle \in DOMAIN acl_connections_
        /\ acl_connections_[e.handle] = e.conn

\* C5 as stated: to_handle(seq) lies in [K, K+M) and equals (seq + K) mod M
\* (for the inputs whose sum does not need more than 31 bits to write down).
C5_RangeFromK ==
  ret >= 0 =>
    /\ ret >= 16 /\ ret < 16 + 3584
    /\ arg[1] <= 1 => ret = (arg[1] * 65536 + arg[2] + 16) % 3584

\* C5 as the code has it: for every 32-bit seq, to_handle(seq) lies in [0, M);
\* it equals (seq + K) mod M while seq + K < 2^32, and ((seq + K) - 2^32) mod M
\* for the last K values of seq, where the 32-bit sum wraps.
C5_RangeFromZero ==
  ret >= 0 =>
    /\ ret >= 0 /\ ret < 3584
    /\ arg[1] <= 1 => ret = (arg[1] * 65536 + arg[2] + 16) % 3584
    /\ (arg[1] = 65535 /\ arg[2] + 16 >= 65536) => ret = (arg[2] + 16 - 65536) % 3584

\* to_handle has been applied to a sequence number whose handle is below K, and
\* to one whose 32-bit sum wraps.
C5_Witness ==
  /\ ret >= 0
  /\ \/ (arg = <<0, 3584 - 16>> /\ ret = 0)
     \/ (arg = <<65535, 65535>> /\ ret = 15)

\* C6 as stated: once the disconnect event carrying a handle has been pushed,
\* no inbound-data callback pushes an event carrying that handle into
\* pending_acl_data_.
C6_NoDataForHandleAfterDisconnect ==
  [][\A e \in AllEvents :
       e.type = "disconnect" =>
         ~(/\ Len(pending_acl_data_') = Len(pending_acl_data_) + 1
           /\ pending_acl_data_'[Len(pending_acl_data_')].handle = e.handle)]_vars

\* C6 as the code has it: once the disconnect event of a connection has been
\* pushed, no inbound-data callback of that connection pushes an event into
\* pending_acl_data_ (the same handle value may come back on another
\* connection after the sequence number has gone round modulo 0xe00).
C6_NoDataForConnectionAfterDisconnect ==
  [][\A e \in AllEvents :
       e.type = "disconnect" =>
         ~(/\ Len(pending_acl_data_') = Len(pending_acl_data_) + 1
           /\ pending_acl_data_'[Len(pending_acl_data_')].conn = e.conn)]_vars

\* A connection's disconnect event has been pushed, and another connection
\* that was given the same handle has relayed inbound data.
C6_Witness ==
  \E e \in AllEvents : \E k \in 1..Len(pending_acl_data_) :
    /\ e.type = "disconnect"
    /\ connections[e.conn].n_unregister > 0
    /\ pending_acl_data_[k].handle = e.handle
    /\ pending_acl_data_[k].conn # e.conn

C8_OneStreamPerChannel ==
  \A t, u \in Threads :
    (t # u /\ rpc[t].pc = "streaming" /\ rpc[u].pc = "streaming")
      => rpc[t].chan # rpc[u].chan

\* Channels of one category (the RPC that appended them) still waiting for
\* their connection-complete event.
OutstandingOf(kind) ==
  {i \in DOMAIN channel_kind : channel_kind[i] = kind /\ ~HasComplete(i)}

\* Thread t performs the admission test of an RPC of the given kind in this step.
AdmissionStep(t, kind) ==
  IF kind = "CreateConnection"
    THEN rpc[t].pc = "cc_check" /\ rpc'[t].pc # "cc_check"
    ELSE NotInCall(t) /\ n_calls' # n_calls /\ rpc'[t].op = kind

\* C9: at most one outgoing and at most one incoming request is outstanding at
\* any time, and a CreateConnection or FetchIncomingConnection call is rejected
\* with RESOURCE_EXHAUSTED exactly when a request of its own category is still
\* outstanding.
C9_OneSlotPerCategory ==
  [][/\ \A kind \in {"CreateConnection", "FetchIncomingConnection"} :
          Cardinality(OutstandingOf(kind)') <= 1
     /\ \A t \in Threads : \A kind \in {"CreateConnection", "FetchIncomingConnection"} :
          AdmissionStep(t, kind) =>
            (rpc'[t].status = "RESOURCE_EXHAUSTED" <=> OutstandingOf(kind) # {})]_vars

\* C10: a thread waiting in SendAclData for its enqueue confirmation does not
\* hold the Registry lock; whichever RPC thread holds the lock is at a step it
\* can take on its own, so the handler thread never waits on a blocked RPC
\* thread; and a waiting sender's enqueue callback stays registered on its own
\* connection whatever the other senders do.
C10_WaitingSenderHoldsNoLock ==
  /\ \A t \in Threads : rpc[t].pc = "send_wait" => acl_connections_mutex_ # t
  /\ \A t \in Threads :
       acl_connections_mutex_ = t => rpc[t].pc \in {"send_find", "disconnect_find"}
  /\ \A t \in Threads :
       (rpc[t].pc = "send_wait" /\ rpc[t].future = "unset")
         => /\ rpc[t].handle \in DOMAIN acl_connections_
            /\ connections[acl_connections_[rpc[t].handle]].enqueue = t

\* Two threads wait in SendAclData on different valid handles at once, neither
\* holding the Registry lock.
C10_Witness ==
  \E t, u \in Threads :
    /\ t # u
    /\ rpc[t].pc = "send_wait" /\ rpc[u].pc = "send_wait"
    /\ rpc[t].handle # rpc[u].handle
    /\ acl_connections_mutex_ = Free

\* C11: immediately after OnLeConnectSuccess has inserted and announced a
\* connection (the handler is between the push and the increment), looking up
\* the announced handle in the Registry returns the connection that callback
\* delivered, also when the handle was already a key after wraparound.
C11_AnnouncedHandleFindsNewConnection ==
  dispatch.pc = "success_increment" =>
    LET h == connections[dispatch.conn].handle IN
      /\ h = to_handle(current_connection_request_)
      /\ h \in DOMAIN acl_connections_
      /\ acl_connections_[h] = dispatch.conn

\* C12: the push precedes the increment: in every reachable state every channel
\* of the log whose index is below current_connection_request_ already holds
\* its connection-complete event.
C12_ChannelsBelowCurrentAreComplete ==
  \A i \in DOMAIN per_connection_events_ :
    (i < events_size /\ i < current_connection_request_) => HasComplete(i)

\* C13: OnLeConnectFail appends exactly one connection-complete failure event
\* with handle 0 to the channel at index current_connection_request_ and then
\* adds 1 to the sequence number; the Registry, pending_acl_data_ and every
\* other channel stay as they were.
C13_FailPushesOneEventThenIncrements ==
  [][/\ (dispatch.pc = "idle" /\ dispatch'.pc = "fail_increment") =>
          LET i == current_connection_request_ IN
            /\ i < events_size
            /\ Len(ChannelAt(i)') = Len(ChannelAt(i)) + 1
            /\ SubSeq(ChannelAt(i)', 1, Len(ChannelAt(i))) = ChannelAt(i)
            /\ ChannelAt(i)'[Len(ChannelAt(i)')].type = "connection_complete"
            /\ ChannelAt(i)'[Len(ChannelAt(i)')].status = "FAIL"
            /\ ChannelAt(i)'[Len(ChannelAt(i)')].handle = 0
            /\ \A j \in DOMAIN per_connection_events_' :
                 j # i => /\ j \in DOMAIN per_connection_events_
                          /\ per_connection_events_'[j] = per_connection_events_[j]
            /\ UNCHANGED <<acl_connections_, pending_acl_data_,
                           current_connection_request_, events_size>>
     /\ (dispatch.pc = "fail_increment" /\ dispatch'.pc = "idle") =>
          /\ current_connection_request_' = current_connection_request_ + 1
          /\ UNCHANGED <<acl_connections_, pending_acl_data_, per_connection_events_>>]_vars

\* The success event of connection c is in channel i.
HoldsSuccessOf(i, c) ==
  \E e \in Events(i) :
    e.type = "connection_complete" /\ e.status = "SUCCESS" /\ e.conn = c

\* C14: for every established connection c, on_disconnect appends exactly one
\* disconnect event to the channel that received c's success event, with the
\* handle that success event carries, to_handle(entry); it pushes nothing into
\* pending_acl_data_ and leaves the Registry and the sequence number as they were.
C14_DisconnectGoesToTheSuccessChannel ==
  [][\A c \in ConnIds :
       (connections[c].disconnect_cb /\ ~connections'[c].disconnect_cb) =>
         LET i == connections[c].entry IN
           /\ i < events_size
           /\ HoldsSuccessOf(i, c)
           /\ Len(ChannelAt(i)') = Len(ChannelAt(i)) + 1
           /\ SubSeq(ChannelAt(i)', 1, Len(ChannelAt(i))) = ChannelAt(i)
           /\ ChannelAt(i)'[Len(ChannelAt(i)')].type = "disconnect"
           /\ ChannelAt(i)'[Len(ChannelAt(i)')].handle = to_handle(i)
           /\ \A e \in Events(i) :
                (e.type = "connection_complete" /\ e.conn = c)
                  => e.handle = ChannelAt(i)'[Len(ChannelAt(i)')].handle
           /\ \A j \in DOMAIN per_connection_events_' :
                j # i => /\ j \in DOMAIN per_connection_events_
                         /\ per_connection_events_'[j] = per_connection_events_[j]
           /\ UNCHANGED <<pending_acl_data_, acl_connections_,
                          current_connection_request_>>]_vars

\* The handler thread leaves OnLeConnectSuccess or OnLeConnectFail in this step.
OutcomeCallbackReturns ==
  /\ dispatch.pc \in {"success_increment", "fail_increment"}
  /\ dispatch'.pc = "idle"

\* The handler thread enters OnLeConnectSuccess or OnLeConnectFail in this step.
OutcomeCallbackBegins ==
  /\ dispatch.pc = "idle"
  /\ dispatch'.pc \in {"success_increment", "fail_increment"}

\* C15: the sequence number never decreases; every OnLeConnectSuccess and every
\* OnLeConnectFail adds exactly 1 to it, once, as its last step; no step of any
\* other operation (CreateConnection admitted, rejected or cancelled,
\* FetchIncomingConnection, SendAclData, Disconnect, on_disconnect,
\* on_incoming_acl, enqueue_packet, the destructor) changes it.
C15_SequenceNumberCountsOutcomes ==
  [][/\ current_connection_request_' >= current_connection_request_
     /\ OutcomeCallbackReturns
          => current_connection_request_' = current_connection_request_ + 1
     /\ OutcomeCallbackBegins
          => current_connection_request_' = current_connection_request_
     /\ ~OutcomeCallbackReturns
          => current_connection_request_' = current_connection_request_]_vars

\* One outgoing request was admitted and failed, another was rejected with
\* RESOURCE_EXHAUSTED, and a connect success was delivered after the failure:
\* two outcomes, and the sequence number is 2.
C15_Witness ==
  /\ dispatch.pc = "idle"
  /\ current_connection_request_ = 2
  /\ \E e \in Events(0) : e.type = "connection_complete" /\ e.status = "FAIL"
  /\ \E c \in ConnIds : connections[c].state # "none" /\ connections[c].entry = 1
  /\ \E t \in Threads : rpc[t].status = "RESOURCE_EXHAUSTED"

\* C16: once the facade has been destroyed, no connection that was ever
\* established still has its on_incoming_acl dequeue callback registered.
C16_NoDequeueCallbackAfterDestruction ==
  destroyed =>
    \A c \in ConnIds : connections[c].state # "none" => ~connections[c].dequeue

\* C17: after every step current_connection_request_ <= size() <=
\* current_connection_request_ + 1, and whenever OnLeConnectSuccess or
\* OnLeConnectFail indexes per_connection_events_[current_connection_request_]
\* the vector has an element at that index.
C17_OutcomeAlwaysHasItsChannel ==
  [][/\ current_connection_request_' <= events_size'
     /\ events_size' <= current_connection_request_' + 1
     /\ OutcomeCallbackBegins => current_connection_request_ < events_size]_vars

\* C18: a CreateConnection call that returns RESOURCE_EXHAUSTED has had no side
\* effect: the manager has not been handed a CreateLeConnection attempt by it,
\* and the log, the sequence number and the Registry are as the call found them.
C18_RejectedCallHasNoSideEffect ==
  [][\A t \in Threads :
       (rpc[t].pc = "cc_check" /\ rpc'[t].status = "RESOURCE_EXHAUSTED") =>
         /\ rpc[t].att \notin acl_manager_'
         /\ UNCHANGED <<per_connection_events_, events_size,
                        current_connection_request_, acl_connections_>>]_vars

\* C19: UnregisterDequeue has never been called on a connection more often than
\* RegisterDequeue (once, by OnLeConnectSuccess): it is only called while the
\* connection's dequeue callback is registered.
C19_UnregisterOnlyWhileRegistered ==
  \A c \in ConnIds : connections[c].n_unregister <= connections[c].n_register

\* The shapes a channel's event sequence may have: nothing yet, one failure
\* event, or one success event and then at most one disconnect event.
WellFormedChannel(q) ==
  \/ q = <<>>
  \/ /\ Len(q) = 1
     /\ q[1].type = "connection_complete"
  \/ /\ Len(q) = 2
     /\ q[1].type = "connection_complete" /\ q[1].status = "SUCCESS"
     /\ q[2].type = "disconnect"

\* C20: every per-request channel holds nothing, exactly one connection-complete
\* failure event, or one connection-complete success event optionally followed
\* by exactly one disconnect event.
C20_ChannelLifecycle ==
  \A i \in DOMAIN per_connection_events_ : WellFormedChannel(ChannelAt(i))

=============================================================================
